---- MODULE Spec2Model ----
(***************************************************************************)
(* Model of the event-segmentation and epoch-averaging pipeline of         *)
(* pcdh_analyze: process_eeg_to_df (src/src/data_processing.py) labels a   *)
(* recording with Event_ID and Stimulus_Type, calculate_erp                *)
(* (src/src/erp_utils.py) cuts, baseline-corrects and averages epochs.     *)
(*                                                                         *)
(* Sample indices are 0-based in the source and 1-based in the sequences   *)
(* of this module: source index o is position o + 1.  Floating-point       *)
(* values are exact rationals <<numerator, denominator>>; NaN is <<0, 0>>. *)
(***************************************************************************)
EXTENDS Integers, Sequences, FiniteSets, TLC

VARIABLES pc, Stimulus, PFC, stimulus_threshold, event_ranges,
          Event_ID, Stimulus_Type,
          event_ids, channels, tmin_samples, tmax_samples, baseline_samples,
          baseline_start_idx, baseline_end_idx,
          onset_indices, done_onsets, epochs_dict, erp_dict, raised

vars == <<pc, Stimulus, PFC, stimulus_threshold, event_ranges,
          Event_ID, Stimulus_Type,
          event_ids, channels, tmin_samples, tmax_samples, baseline_samples,
          baseline_start_idx, baseline_end_idx,
          onset_indices, done_onsets, epochs_dict, erp_dict, raised>>

dfVars == <<Stimulus, PFC, stimulus_threshold, event_ranges>>
labelVars == <<Event_ID, Stimulus_Type>>
erpVars == <<event_ids, channels, tmin_samples, tmax_samples,
             baseline_samples, baseline_start_idx, baseline_end_idx,
             onset_indices, done_onsets, epochs_dict, erp_dict, raised>>

(***************************************************************************)
(* Bounds of the model.                                                    *)
(***************************************************************************)
MaxLen == 4
MaxRangeId == 2
MaxHalfTime == 2
MaxEventId == 2

(***************************************************************************)
(* Program constants.                                                      *)
(***************************************************************************)
STIMULUS_THRESHOLD == 5
NoStimulus == "No_Stimulus"

StimVals == {STIMULUS_THRESHOLD - 1, STIMULUS_THRESHOLD, STIMULUS_THRESHOLD + 1}
PulseVals == {STIMULUS_THRESHOLD, STIMULUS_THRESHOLD + 1}
RangeNames == {"Light", "Sound"}

SeqsUpTo(S, n) == UNION {[1..k -> S] : k \in 0..n}

(***************************************************************************)
(* process_eeg_to_df: event detection.                                     *)
(***************************************************************************)
MutStimOnInclusive(stim, thr) == [i \in 1..Len(stim) |-> stim[i] >= thr]

\* is_stim_on = df['Stimulus'] > stimulus_threshold
is_stim_on(stim, thr) == [i \in 1..Len(stim) |-> stim[i] > thr]

MutStartsNoFill(on) ==
  [i \in 1..Len(on) |-> on[i] /\ ~(IF i = 1 THEN TRUE ELSE on[i - 1])]

\* stim_starts = is_stim_on & ~is_stim_on.shift(1).fillna(False)
stim_starts(on) ==
  [i \in 1..Len(on) |-> on[i] /\ ~(IF i = 1 THEN FALSE ELSE on[i - 1])]

\* event_ids = stim_starts.cumsum()
cumsum(starts) ==
  [i \in 1..Len(starts) |-> Cardinality({j \in 1..i : starts[j]})]

\* df['Event_ID'] = event_ids.where(is_stim_on, 0).astype(int)
EventIdColumn(stim, thr) ==
  LET on == is_stim_on(stim, thr)
      ids == cumsum(stim_starts(on))
  IN [i \in 1..Len(stim) |-> IF on[i] THEN ids[i] ELSE 0]

(***************************************************************************)
(* process_eeg_to_df: classification.  event_ranges is the dict in         *)
(* iteration order, one <<name, a, b>> per item.                           *)
(***************************************************************************)
MutRangeMaskZero(id, r) == id >= r[2] /\ id <= r[3]

\* mask = (df['Event_ID'] > 0) & (df['Event_ID'] >= a) & (df['Event_ID'] <= b)
RangeMask(id, r) == id > 0 /\ id >= r[2] /\ id <= r[3]

RECURSIVE MutKeepFirstLabel(_, _, _)
MutKeepFirstLabel(label, id, ranges) ==
  IF Len(ranges) = 0 THEN label
  ELSE MutKeepFirstLabel(
         IF RangeMask(id, Head(ranges)) /\ label = NoStimulus
         THEN Head(ranges)[1] ELSE label,
         id, Tail(ranges))

\* df['Stimulus_Type'] = 'No_Stimulus', then for each item of event_ranges in
\* order: df.loc[mask, 'Stimulus_Type'] = name.  AssignLabel follows one
\* sample's label through the loop.
RECURSIVE AssignLabel(_, _, _)
AssignLabel(label, id, ranges) ==
  IF Len(ranges) = 0 THEN label
  ELSE AssignLabel(
         IF RangeMask(id, Head(ranges)) THEN Head(ranges)[1] ELSE label,
         id, Tail(ranges))

StimulusTypeColumn(ids, ranges) ==
  [i \in 1..Len(ids) |-> AssignLabel(NoStimulus, ids[i], ranges)]

(***************************************************************************)
(* Exact arithmetic for the floating-point arrays of calculate_erp.        *)
(***************************************************************************)
NaN == <<0, 0>>
IsNaN(x) == x[2] = 0
Rat(v) == <<v, 1>>
RatSub(x, y) ==
  IF IsNaN(x) \/ IsNaN(y) THEN NaN
  ELSE <<x[1] * y[2] - y[1] * x[2], x[2] * y[2]>>
RatAdd(x, y) ==
  IF IsNaN(x) \/ IsNaN(y) THEN NaN
  ELSE <<x[1] * y[2] + y[1] * x[2], x[2] * y[2]>>
RatEq(x, y) ==
  IF IsNaN(x) \/ IsNaN(y) THEN IsNaN(x) /\ IsNaN(y)
  ELSE x[1] * y[2] = y[1] * x[2]

RECURSIVE RatSum(_)
RatSum(s) == IF Len(s) = 0 THEN Rat(0) ELSE RatAdd(Head(s), RatSum(Tail(s)))

\* np.mean of a 1-D array: NaN for an empty array (0 / 0)
np_mean(s) ==
  LET t == RatSum(s)
  IN IF Len(s) = 0 \/ IsNaN(t) THEN NaN ELSE <<t[1], t[2] * Len(s)>>

MutFullZero(n) == [k \in 1..n |-> Rat(0)]

\* np.full(n, np.nan), n >= 0
np_full_nan(n) == [k \in 1..n |-> NaN]

(***************************************************************************)
(* calculate_erp.                                                          *)
(***************************************************************************)
DfColumns == {"PFC", "Stimulus"}
ChannelLists == {<<"PFC">>, <<"Cz">>, <<"PFC", "Cz">>, <<"PFC", "PFC">>}
HalfTimes == (0 - MaxHalfTime)..MaxHalfTime

\* int(t_sec * sampling_rate) for t_sec * sampling_rate = h / 2: int()
\* truncates toward zero
ToSamples(h) == IF h >= 0 THEN h \div 2 ELSE 0 - ((0 - h) \div 2)

\* df[channel].values
Column(ch) == IF ch = "PFC" THEN [i \in 1..Len(PFC) |-> Rat(PFC[i])]
              ELSE [i \in 1..Len(Stimulus) |-> Rat(Stimulus[i])]

\* a[start:end] for a sequence of length n (0-based, negative bounds count
\* from the end, out-of-range bounds are clipped)
PySlice(a, start, end) ==
  LET n == Len(a)
      Clip(i) == IF i < 0 THEN (IF i + n < 0 THEN 0 ELSE i + n)
                 ELSE (IF i > n THEN n ELSE i)
      lo == Clip(start)
      hi == Clip(end)
  IN IF hi <= lo THEN <<>> ELSE SubSeq(a, lo + 1, hi)

MutAbsoluteIndex(t_samples, tmin) == t_samples

\* int(baseline_sec[k] * sampling_rate) - tmin_samples: an offset from the
\* first sample of the epoch
EpochIndex(t_samples, tmin) == t_samples - tmin

\* np.arange(baseline_start_idx, baseline_end_idx)
np_arange(lo, hi) == [k \in 1..(hi - lo) |-> lo + k - 1]

\* epoch[baseline_indices] raises IndexError when an index is outside
\* [-len(epoch), len(epoch))
IndexOutOfBounds(epoch, idx) ==
  \E k \in 1..Len(idx) : idx[k] >= Len(epoch) \/ idx[k] < 0 - Len(epoch)

\* epoch[baseline_indices]: integer-array indexing, a negative index counts
\* from the end of the epoch
Take(epoch, idx) ==
  [k \in 1..Len(idx) |->
     epoch[(IF idx[k] < 0 THEN idx[k] + Len(epoch) ELSE idx[k]) + 1]]

\* baseline_value = np.mean(epoch[baseline_indices])
\* epoch_corrected = epoch - baseline_value
BaselineCorrect(epoch, idx) ==
  LET baseline_value == np_mean(Take(epoch, idx))
  IN [k \in 1..Len(epoch) |-> RatSub(epoch[k], baseline_value)]

MutOnsetEverySample(ids, sel) ==
  {o \in 0..(Len(ids) - 1) : ids[o + 1] \in sel}

\* valid_event_mask & (df['Event_ID'].diff() != 0): diff() is NaN on the
\* first row, and NaN != 0 holds
OnsetSet(ids, sel) ==
  {o \in 0..(Len(ids) - 1) :
     ids[o + 1] \in sel /\ (o = 0 \/ ids[o + 1] - ids[o] # 0)}

RECURSIVE SortedSeq(_)
SortedSeq(S) ==
  IF S = {} THEN <<>>
  ELSE LET m == CHOOSE x \in S : \A y \in S : x <= y
       IN <<m>> \o SortedSeq(S \ {m})

MutSkipInclusiveEnd(start_cut_idx, end_cut_idx, n) ==
  start_cut_idx < 0 \/ end_cut_idx > n

\* if start_cut_idx < 0 or end_cut_idx >= len(df): continue
SkipOnset(start_cut_idx, end_cut_idx, n) ==
  start_cut_idx < 0 \/ end_cut_idx >= n

\* the body of `for channel in channels` for one onset, from the channels
\* still to visit: the result is the exception raised ("" when none) and
\* epochs_dict as the loop leaves it
RECURSIVE ChannelLoop(_, _, _, _, _, _)
ChannelLoop(dict, chs, start_cut_idx, end_cut_idx, total_samples, idx) ==
  IF Len(chs) = 0 THEN [exc |-> "", dict |-> dict]
  ELSE LET channel == Head(chs) IN
       IF channel \notin DfColumns THEN [exc |-> "KeyError", dict |-> dict]
       ELSE LET epoch == PySlice(Column(channel), start_cut_idx, end_cut_idx) IN
            IF Len(epoch) # total_samples
            THEN ChannelLoop(dict, Tail(chs), start_cut_idx, end_cut_idx,
                             total_samples, idx)
            ELSE IF IndexOutOfBounds(epoch, idx)
            THEN [exc |-> "IndexError", dict |-> dict]
            ELSE ChannelLoop(
                   [dict EXCEPT ![channel] =
                      Append(@, BaselineCorrect(epoch, idx))],
                   Tail(chs), start_cut_idx, end_cut_idx, total_samples, idx)

\* np.mean(np.array(epochs), axis=0)
MeanAxis0(epochs, total_samples) ==
  [k \in 1..total_samples |->
     np_mean([e \in 1..Len(epochs) |-> epochs[e][k]])]

(***************************************************************************)
(* Inputs.                                                                 *)
(***************************************************************************)
\* EVENT_RANGES of config.py, scaled to the event counts of the model
EVENT_RANGES == <<<<"Light", 1, 1>>, <<"Sound", 2, 2>>>>

\* ordered dicts: distinct names, any integer bounds (also inverted ones)
RangeConfigs ==
  {c \in SeqsUpTo(RangeNames \X (0..MaxRangeId) \X (0..MaxRangeId),
                  Cardinality(RangeNames)) :
     \A i, j \in 1..Len(c) : i # j => c[i][1] # c[j][1]}

Thresholds == {STIMULUS_THRESHOLD - 1, STIMULUS_THRESHOLD}

\* sample voltage traces of the PFC electrode, repeated to the length asked
Traces == {<<1, 3, 0, 2>>, <<0, 0, 4, 1>>}
TracePrefix(t, n) == [i \in 1..n |-> t[((i - 1) % Len(t)) + 1]]

EventIdSets == SUBSET (0..MaxEventId)

Idle ==
  /\ Event_ID = <<>>
  /\ Stimulus_Type = <<>>
  /\ event_ids = {}
  /\ channels = <<>>
  /\ tmin_samples = 0
  /\ tmax_samples = 0
  /\ baseline_samples = <<0, 0>>
  /\ baseline_start_idx = 0
  /\ baseline_end_idx = 0
  /\ onset_indices = <<>>
  /\ done_onsets = 0
  /\ epochs_dict = <<>>
  /\ erp_dict = <<>>
  /\ raised = ""

\* a loaded recording and the configuration, before process_eeg_to_df
Init ==
  /\ pc = "raw"
  /\ Stimulus \in SeqsUpTo(PulseVals, MaxLen)
  /\ \E t \in Traces : PFC = TracePrefix(t, Len(Stimulus))
  /\ stimulus_threshold = STIMULUS_THRESHOLD
  /\ event_ranges = EVENT_RANGES
  /\ Idle

InitLabel ==
  /\ pc = "raw"
  /\ Stimulus \in SeqsUpTo(StimVals, MaxLen)
  /\ PFC = [i \in 1..Len(Stimulus) |-> 0]
  /\ stimulus_threshold \in Thresholds
  /\ event_ranges \in RangeConfigs
  /\ Idle

(***************************************************************************)
(* Actions.                                                                *)
(***************************************************************************)
process_eeg_to_df ==
  /\ pc = "raw"
  /\ Event_ID' = EventIdColumn(Stimulus, stimulus_threshold)
  /\ Stimulus_Type' = StimulusTypeColumn(Event_ID', event_ranges)
  /\ pc' = "labelled"
  /\ UNCHANGED <<dfVars, erpVars>>

\* the values int(t_sec * sampling_rate) takes over the time inputs
TimeSamples == {ToSamples(h) : h \in HalfTimes}

\* calculate_erp up to the loop over onset_indices
calculate_erp ==
  /\ pc = "labelled"
  /\ \E tmin \in TimeSamples, tmax \in TimeSamples,
        b0 \in TimeSamples, b1 \in TimeSamples,
        ids \in EventIdSets, chs \in ChannelLists :
       /\ tmin_samples' = tmin
       /\ tmax_samples' = tmax
       /\ baseline_samples' = <<b0, b1>>
       /\ baseline_start_idx' = EpochIndex(b0, tmin)
       /\ baseline_end_idx' = EpochIndex(b1, tmin)
       /\ event_ids' = ids
       /\ channels' = chs
       /\ epochs_dict' = [ch \in {chs[k] : k \in 1..Len(chs)} |-> <<>>]
       /\ onset_indices' = SortedSeq(OnsetSet(Event_ID, ids))
  /\ done_onsets' = 0
  /\ pc' = "epoching"
  /\ UNCHANGED <<dfVars, labelVars, erp_dict, raised>>

total_samples == tmax_samples - tmin_samples
baseline_indices == np_arange(baseline_start_idx, baseline_end_idx)

\* one iteration of `for stim_onset_idx in onset_indices`
epoch_onset ==
  /\ pc = "epoching"
  /\ done_onsets < Len(onset_indices)
  /\ LET stim_onset_idx == onset_indices[done_onsets + 1]
         start_cut_idx == stim_onset_idx + tmin_samples
         end_cut_idx == stim_onset_idx + tmax_samples
     IN IF SkipOnset(start_cut_idx, end_cut_idx, Len(Stimulus))
        THEN /\ done_onsets' = done_onsets + 1
             /\ UNCHANGED <<pc, epochs_dict, raised>>
        ELSE LET r == ChannelLoop(epochs_dict, channels, start_cut_idx,
                                  end_cut_idx, total_samples,
                                  baseline_indices)
             IN IF r.exc = ""
                THEN /\ done_onsets' = done_onsets + 1
                     /\ epochs_dict' = r.dict
                     /\ UNCHANGED <<pc, raised>>
                ELSE /\ pc' = "raised"
                     /\ raised' = r.exc
                     /\ UNCHANGED <<done_onsets, epochs_dict>>
  /\ UNCHANGED <<dfVars, labelVars, event_ids, channels, tmin_samples,
                 tmax_samples, baseline_samples, baseline_start_idx,
                 baseline_end_idx, onset_indices, erp_dict>>

\* the averaging loop and the return; np.full raises ValueError for a
\* negative length
average ==
  /\ pc = "epoching"
  /\ done_onsets = Len(onset_indices)
  /\ IF \E ch \in DOMAIN epochs_dict :
          Len(epochs_dict[ch]) = 0 /\ total_samples < 0
     THEN /\ pc' = "raised"
          /\ raised' = "ValueError"
          /\ UNCHANGED erp_dict
     ELSE /\ pc' = "returned"
          /\ erp_dict' =
               [ch \in DOMAIN epochs_dict |->
                  IF Len(epochs_dict[ch]) > 0
                  THEN MeanAxis0(epochs_dict[ch], total_samples)
                  ELSE np_full_nan(total_samples)]
          /\ UNCHANGED raised
  /\ UNCHANGED <<dfVars, labelVars, event_ids, channels, tmin_samples,
                 tmax_samples, baseline_samples, baseline_start_idx,
                 baseline_end_idx, onset_indices, done_onsets, epochs_dict>>

Next == process_eeg_to_df \/ calculate_erp \/ epoch_onset \/ average
Spec == Init /\ [][Next]_vars

NextLabel == process_eeg_to_df
SpecLabel == InitLabel /\ [][NextLabel]_vars

(***************************************************************************)
(* Properties of process_eeg_to_df (checked under SpecLabel).              *)
(***************************************************************************)
Labelled == pc # "raw"
Samples == 1..Len(Stimulus)
Above(i) == Stimulus[i] > stimulus_threshold
\* i is the first sample of a maximal above-threshold run
RunStart(i) == Above(i) /\ (i = 1 \/ ~Above(i - 1))
RunStarts == {i \in Samples : RunStart(i)}
\* i <= j lie in the same maximal above-threshold run
SameRun(i, j) == \A k \in i..j : Above(k)
PositiveIds == {Event_ID[i] : i \in 1..Len(Event_ID)} \ {0}

\* C1: a sample carries a positive Event_ID iff its stimulus value is strictly
\* above the threshold and carries 0 otherwise; the samples of one maximal
\* above-threshold run share one ID, two different runs carry different IDs,
\* and the number of distinct positive IDs is the number of runs.
C1_EventIdsMatchRuns ==
  Labelled =>
    /\ Len(Event_ID) = Len(Stimulus)
    /\ \A i \in Samples :
         /\ Event_ID[i] > 0 <=> Above(i)
         /\ ~Above(i) => Event_ID[i] = 0
    /\ \A i, j \in Samples :
         (i <= j /\ Above(i) /\ Above(j)) =>
           (Event_ID[i] = Event_ID[j] <=> SameRun(i, j))
    /\ Cardinality(PositiveIds) = Cardinality(RunStarts)

\* two runs separated by one sample that equals the threshold
C1_Witness ==
  /\ pc = "labelled"
  /\ \E i \in Samples :
       /\ i + 2 \in Samples
       /\ Above(i) /\ Stimulus[i + 1] = stimulus_threshold /\ Above(i + 2)
       /\ Event_ID[i] > 0 /\ Event_ID[i + 1] = 0
       /\ Event_ID[i + 2] # Event_ID[i]

\* C2: the positive Event_IDs are exactly 1..N for N events, and the k-th
\* above-threshold run in sample order carries ID k, so the IDs read left to
\* right without the zeros never decrease, start at 1 and skip no value.
C2_DenseIdsInOnsetOrder ==
  Labelled =>
    /\ PositiveIds = 1..Cardinality(RunStarts)
    /\ \A i \in RunStarts :
         Event_ID[i] = 1 + Cardinality({j \in RunStarts : j < i})
    /\ \A i, j \in Samples :
         (i < j /\ Event_ID[i] > 0 /\ Event_ID[j] > 0
            /\ \A k \in (i + 1)..(j - 1) : Event_ID[k] = 0) =>
           Event_ID[j] \in {Event_ID[i], Event_ID[i] + 1}
    /\ \A i \in Samples :
         (Event_ID[i] > 0 /\ \A k \in 1..(i - 1) : Event_ID[k] = 0) =>
           Event_ID[i] = 1

\* a recording that starts above threshold at index 0 and has a second event
C2_Witness ==
  /\ pc = "labelled"
  /\ Len(Stimulus) > 0
  /\ Above(1)
  /\ Event_ID[1] = 1
  /\ \E i \in Samples : Event_ID[i] = 2

Contains(id, r) == id >= r[2] /\ id <= r[3]
Containing(id) == {k \in 1..Len(event_ranges) : Contains(id, event_ranges[k])}
Smallest(S) == CHOOSE x \in S : \A y \in S : x <= y
Largest(S) == CHOOSE x \in S : \A y \in S : x >= y

\* C3 as stated: an Event_ID inside more than one configured range gets the
\* name of the first range, in configuration order, that contains it.
C3_FirstConfiguredMatchWins ==
  Labelled =>
    \A i \in Samples :
      (Event_ID[i] > 0 /\ Cardinality(Containing(Event_ID[i])) > 1) =>
        Stimulus_Type[i] = event_ranges[Smallest(Containing(Event_ID[i]))][1]

\* C3 amended: an Event_ID inside more than one configured range gets the
\* name of the last range, in configuration order, that contains it.
C3_LastConfiguredMatchWins ==
  Labelled =>
    \A i \in Samples :
      (Event_ID[i] > 0 /\ Cardinality(Containing(Event_ID[i])) > 1) =>
        Stimulus_Type[i] = event_ranges[Largest(Containing(Event_ID[i]))][1]

\* an event whose ID lies in both configured ranges
C3_Witness ==
  /\ pc = "labelled"
  /\ \E i \in Samples :
       /\ Event_ID[i] > 0
       /\ Containing(Event_ID[i]) = {1, 2}
       /\ Stimulus_Type[i] = event_ranges[2][1]

ConfiguredNames == {event_ranges[k][1] : k \in 1..Len(event_ranges)}
NonOverlapping ==
  \A k, l \in 1..Len(event_ranges) :
    k # l => ~\E id \in 0..MaxRangeId :
               Contains(id, event_ranges[k]) /\ Contains(id, event_ranges[l])
Reorderings ==
  {[k \in 1..Len(event_ranges) |-> event_ranges[p[k]]] :
     p \in {q \in [1..Len(event_ranges) -> 1..Len(event_ranges)] :
              \A k, l \in 1..Len(event_ranges) : k # l => q[k] # q[l]}}

\* C4: every sample has one Stimulus_Type; it is "No_Stimulus" when the
\* Event_ID is 0 (also when a range contains 0) or when no inclusive range
\* holds the ID; samples with equal Event_ID have equal labels; and with
\* non-overlapping ranges every configuration order gives the same labels.
C4_ClassificationTotal ==
  Labelled =>
    /\ Len(Stimulus_Type) = Len(Stimulus)
    /\ \A i \in Samples :
         /\ Stimulus_Type[i] \in ConfiguredNames \cup {NoStimulus}
         /\ (Event_ID[i] = 0 \/ Containing(Event_ID[i]) = {}) =>
              Stimulus_Type[i] = NoStimulus
         /\ (Event_ID[i] > 0 /\ Containing(Event_ID[i]) # {}) =>
              Stimulus_Type[i] \in
                {event_ranges[k][1] : k \in Containing(Event_ID[i])}
    /\ \A i, j \in Samples :
         Event_ID[i] = Event_ID[j] => Stimulus_Type[i] = Stimulus_Type[j]
    /\ NonOverlapping =>
         \A c \in Reorderings :
           StimulusTypeColumn(Event_ID, c) = Stimulus_Type

\* two non-overlapping ranges, one of which contains 0; a sample outside any
\* event and a sample of a labelled event
C4_Witness ==
  /\ pc = "labelled"
  /\ Len(event_ranges) = 2
  /\ NonOverlapping
  /\ \E i, j \in Samples :
       /\ Event_ID[i] = 0
       /\ Containing(0) # {}
       /\ Stimulus_Type[i] = NoStimulus
       /\ Event_ID[j] > 0
       /\ Stimulus_Type[j] # NoStimulus

(***************************************************************************)
(* Properties of calculate_erp (checked under Spec).                       *)
(***************************************************************************)
Started == pc \in {"epoching", "returned", "raised"}
ReqChannels == DOMAIN epochs_dict
\* how often the channel list names ch
Mult(ch) == Cardinality({k \in 1..Len(channels) : channels[k] = ch})
Raw(ch) == IF ch = "PFC" THEN PFC ELSE Stimulus
InBounds(o) ==
  o + tmin_samples >= 0 /\ o + tmax_samples < Len(Stimulus)
\* the onsets the loop has gone through whose window lies in the recording
FitOnsets ==
  SortedSeq({onset_indices[k] : k \in 1..done_onsets}
              \cap {o \in 0..(Len(Stimulus) - 1) : InBounds(o)})
\* the onset behind the m-th epoch of a channel named mult times
OnsetOf(fit, m, mult) == fit[((m - 1) \div mult) + 1]

\* e is the window [o + tmin_samples, o + tmax_samples) of channel ch, up
\* to the constant that baseline correction subtracts
AnchoredAt(e, ch, o) ==
  /\ Len(e) = tmax_samples - tmin_samples
  /\ \A k \in 1..Len(e) :
       \/ IsNaN(e[k])
       \/ RatEq(RatSub(e[k], e[1]),
                Rat(Raw(ch)[o + tmin_samples + k]
                      - Raw(ch)[o + tmin_samples + 1]))

\* C5: in a call that returns, an onset o contributes an epoch to a
\* requested channel iff o + tmin_samples >= 0 and
\* o + tmax_samples < recording_length; every epoch is the slice
\* [o + tmin_samples, o + tmax_samples) of length tmax_samples - tmin_samples.
C5_EpochBounds ==
  pc = "returned" =>
    \A ch \in ReqChannels :
      /\ Len(epochs_dict[ch]) = Mult(ch) * Len(FitOnsets)
      /\ \A m \in 1..Len(epochs_dict[ch]) :
           AnchoredAt(epochs_dict[ch][m], ch,
                      OnsetOf(FitOnsets, m, Mult(ch)))

\* an onset at exactly |tmin_samples| is kept, an onset whose window ends
\* exactly at the recording length is dropped
C5_Witness ==
  /\ pc = "returned"
  /\ tmin_samples < 0
  /\ "PFC" \in ReqChannels
  /\ \E k, l \in 1..Len(onset_indices) :
       /\ onset_indices[k] + tmin_samples = 0
       /\ InBounds(onset_indices[k])
       /\ onset_indices[l] + tmax_samples = Len(Stimulus)
       /\ Len(epochs_dict["PFC"]) = Mult("PFC")

\* the first samples (0-based) of the events selected by event_ids, the
\* events being the maximal above-threshold runs numbered in onset order
SelectedEventOnsets ==
  {i - 1 : i \in {j \in RunStarts :
                    1 + Cardinality({h \in RunStarts : h < j}) \in event_ids}}
FitEvents == SortedSeq({o \in SelectedEventOnsets : InBounds(o)})
OnePerFittingEvent(ch) ==
  /\ Len(epochs_dict[ch]) = Len(FitEvents)
  /\ \A m \in 1..Len(epochs_dict[ch]) :
       AnchoredAt(epochs_dict[ch][m], ch, FitEvents[m])

\* C6 as stated: for any set of Event_ID values and any channel, the epochs
\* averaged are exactly one per selected event that fits, anchored at the
\* event's first sample; nothing else contributes and nothing twice.
C6_OneEpochPerSelectedEvent ==
  pc = "returned" => \A ch \in ReqChannels : OnePerFittingEvent(ch)

\* C6 amended: the same for a set of positive Event IDs and a channel that
\* the channel list names once.
C6_OneEpochPerPositiveSelectedEvent ==
  (pc = "returned" /\ 0 \notin event_ids) =>
    \A ch \in ReqChannels : Mult(ch) = 1 => OnePerFittingEvent(ch)

\* two events fit, the second alone is selected and gives the one epoch
C6_Witness ==
  /\ pc = "returned"
  /\ event_ids = {2}
  /\ channels = <<"PFC">>
  /\ tmax_samples - tmin_samples > 0
  /\ Cardinality({i \in RunStarts : InBounds(i - 1)}) = 2
  /\ Len(epochs_dict["PFC"]) = 1

MalformedBaseline ==
  \/ baseline_samples[2] - tmin_samples <= baseline_samples[1] - tmin_samples
  \/ baseline_samples[1] - tmin_samples < 0
  \/ baseline_samples[2] - tmin_samples > tmax_samples - tmin_samples

\* C7: a call with a malformed baseline window (empty, inverted, or outside
\* [0, tmax_samples - tmin_samples) in epoch-local offsets) never returns a
\* waveform.
C7_MalformedBaselineNeverReturns ==
  (Started /\ MalformedBaseline) => pc # "returned"

\* C8: a call that requests a channel that is not a column of the table
\* never returns a waveform.
C8_UnknownChannelNeverReturns ==
  (Started /\ \E k \in 1..Len(channels) : channels[k] \notin DfColumns) =>
    pc # "returned"

\* no selected onset has its window inside the recording
NoFit == \A k \in 1..Len(onset_indices) : ~InBounds(onset_indices[k])
AllNaN(w) == \A k \in 1..Len(w) : IsNaN(w[k])
\* w is the element-wise mean of the epochs
IsMeanOf(w, epochs) ==
  \A k \in 1..Len(w) :
    RatEq(IF IsNaN(w[k]) THEN NaN ELSE <<w[k][1] * Len(epochs), w[k][2]>>,
          RatSum([m \in 1..Len(epochs) |-> epochs[m][k]]))
Waveforms ==
  pc = "returned" =>
    /\ DOMAIN erp_dict = ReqChannels
    /\ \A ch \in ReqChannels :
         /\ Len(erp_dict[ch]) = tmax_samples - tmin_samples
         /\ Len(epochs_dict[ch]) = 0 => AllNaN(erp_dict[ch])
         /\ Len(epochs_dict[ch]) > 0 =>
              IsMeanOf(erp_dict[ch], epochs_dict[ch])

\* C9 as stated: when no selected event fits the recording the call does not
\* fail, and every channel without epochs gets tmax_samples - tmin_samples
\* NaN values; a channel with epochs gets their element-wise mean.
C9_ZeroEpochsGiveNaN ==
  /\ (Started /\ NoFit) => pc # "raised"
  /\ Waveforms

\* C9 amended: the same provided tmax_samples >= tmin_samples.
C9_ZeroEpochsGiveNaNForOrderedWindow ==
  /\ (Started /\ NoFit /\ tmax_samples >= tmin_samples) => pc # "raised"
  /\ Waveforms

\* selected events exist, none fits, and the waveform is NaN of full length
C9_Witness ==
  /\ pc = "returned"
  /\ Len(onset_indices) > 0
  /\ NoFit
  /\ tmax_samples - tmin_samples = 2
  /\ "PFC" \in ReqChannels
  /\ erp_dict["PFC"] = <<NaN, NaN>>

ValidBaseline ==
  /\ 0 <= baseline_samples[1] - tmin_samples
  /\ baseline_samples[1] - tmin_samples < baseline_samples[2] - tmin_samples
  /\ baseline_samples[2] - tmin_samples <= tmax_samples - tmin_samples
\* the raw window of channel ch at onset o
RawEpoch(ch, o) ==
  [k \in 1..(tmax_samples - tmin_samples) |-> Raw(ch)[o + tmin_samples + k]]
RECURSIVE SumSeq(_)
SumSeq(s) == IF Len(s) = 0 THEN 0 ELSE Head(s) + SumSeq(Tail(s))

\* e is raw minus the mean of raw over the epoch-local offsets [lo, hi)
CorrectedBy(e, raw, lo, hi) ==
  LET S == SumSeq(SubSeq(raw, lo + 1, hi))
  IN /\ \A k \in 1..Len(raw) :
          RatEq(e[k], <<(hi - lo) * raw[k] - S, hi - lo>>)
     /\ RatEq(RatSum(SubSeq(e, lo + 1, hi)), Rat(0))

\* C10: with a valid, non-empty, in-bounds baseline window every corrected
\* epoch is the raw epoch minus the mean of the raw epoch over the offsets
\* [baseline_start * fs - tmin_samples, baseline_end * fs - tmin_samples),
\* so its mean over that window is 0.
C10_BaselineMeanZero ==
  (Started /\ ValidBaseline) =>
    \A ch \in ReqChannels \cap DfColumns :
      \A m \in 1..Len(epochs_dict[ch]) :
        CorrectedBy(epochs_dict[ch][m],
                    RawEpoch(ch, OnsetOf(FitOnsets, m, Mult(ch))),
                    baseline_samples[1] - tmin_samples,
                    baseline_samples[2] - tmin_samples)

\* an epoch whose baseline window starts after the epoch start, holds two
\* different raw values and has a non-zero mean
C10_Witness ==
  /\ Started
  /\ ValidBaseline
  /\ tmin_samples < 0
  /\ baseline_samples[2] - baseline_samples[1] = 2
  /\ "PFC" \in ReqChannels
  /\ Len(epochs_dict["PFC"]) > 0
  /\ LET raw == RawEpoch("PFC", FitOnsets[1])
         lo == baseline_samples[1] - tmin_samples
     IN /\ raw[lo + 1] # raw[lo + 2]
        /\ raw[lo + 1] + raw[lo + 2] # 0

====
